---- MODULE Spec2Model ----
(***************************************************************************)
(* A model of the formatter of formatting.ts (src/unnamed/part_000).       *)
(*                                                                         *)
(* A text is a sequence of characters, a character a string of length 1;   *)
(* a line is a text without line terminator, a document a text that may    *)
(* hold "\n" and "\r".  Every function of the source is an operator of the *)
(* same name that computes what the source computes, regular expressions   *)
(* included (each one is written out as the scan it performs).             *)
(***************************************************************************)
EXTENDS Integers, Sequences, FiniteSets, TLC

(***************************************************************************)
(* Characters and character classes of the regular expressions             *)
(***************************************************************************)

\* \s of the regular expressions, over the characters a text of the model holds
IsSpace(c) == c \in {" ", "\t", "\n", "\r"}

\* [ \t]
IsBlank(c) == c \in {" ", "\t"}

\* the line terminators "." does not match
IsLineTerminator(c) == c \in {"\n", "\r"}

IsQuote(c) == c \in {"\"", "'"}

\* \w, for the word boundary \b
IsWordChar(c) ==
    c \in {"a", "b", "c", "d", "e", "f", "g", "h", "i", "j", "k", "l", "m",
           "n", "o", "p", "q", "r", "s", "t", "u", "v", "w", "x", "y", "z",
           "0", "1", "2", "3", "4", "5", "6", "7", "8", "9", "_"}

IsOpenBracket(c) == c \in {"{", "[", "("}

IsCloseBracket(c) == c \in {"}", "]", ")"}

(***************************************************************************)
(* Sequences                                                               *)
(***************************************************************************)

Max(a, b) == IF a >= b THEN a ELSE b

Min(a, b) == IF a <= b THEN a ELSE b

\* s.slice(p - 1): the characters from position p (1-based) on
From(s, p) == SubSeq(s, p, Len(s))

\* s.slice(0, p - 1): the characters before position p
Before(s, p) == SubSeq(s, 1, p - 1)

\* whether w stands in s at position p
MatchesAt(s, p, w) ==
    /\ p + Len(w) - 1 <= Len(s)
    /\ SubSeq(s, p, p + Len(w) - 1) = w

\* s.includes(c)
Includes(s, c) == \E p \in 1..Len(s) : s[p] = c

\* s.endsWith(w)
EndsWith(s, w) == Len(s) >= Len(w) /\ From(s, Len(s) - Len(w) + 1) = w

\* String.prototype.repeat for a count >= 0 (a negative count throws, see
\* formatLinesThrows and normalizeIndentThrows)
RECURSIVE Repeat(_, _)
Repeat(s, n) == IF n <= 0 THEN <<>> ELSE s \o Repeat(s, n - 1)

\* the first position >= p of s that holds no \s character (Len(s) + 1 if none)
RECURSIVE SkipSpace(_, _)
SkipSpace(s, p) ==
    IF p <= Len(s) /\ IsSpace(s[p]) THEN SkipSpace(s, p + 1) ELSE p

\* the first position >= p of s that holds no [ \t] character
RECURSIVE SkipBlank(_, _)
SkipBlank(s, p) ==
    IF p <= Len(s) /\ IsBlank(s[p]) THEN SkipBlank(s, p + 1) ELSE p

\* s.replace(/[ \t]+$/g, "")
RECURSIVE TrimTrailingBlank(_)
TrimTrailingBlank(s) ==
    IF Len(s) > 0 /\ IsBlank(s[Len(s)])
        THEN TrimTrailingBlank(SubSeq(s, 1, Len(s) - 1))
        ELSE s

\* s.replace(/^[ \t]+/, "")
TrimLeadingBlank(s) == From(s, SkipBlank(s, 1))

\* s.replace(/^\s+/, "")
TrimLeadingSpace(s) == From(s, SkipSpace(s, 1))

\* s with its trailing \s characters removed
RECURSIVE TrimTrailingSpace(_)
TrimTrailingSpace(s) ==
    IF Len(s) > 0 /\ IsSpace(s[Len(s)])
        THEN TrimTrailingSpace(SubSeq(s, 1, Len(s) - 1))
        ELSE s

\* s.trim()
Trim(s) == TrimTrailingSpace(TrimLeadingSpace(s))

\* /^\s*$/.test(s)
IsBlankLine(s) == \A p \in 1..Len(s) : IsSpace(s[p])

\* s.split(sep) for a one-character separator
RECURSIVE SplitFrom(_, _, _, _)
SplitFrom(s, sep, p, cur) ==
    IF p > Len(s) THEN <<cur>>
    ELSE IF s[p] = sep THEN <<cur>> \o SplitFrom(s, sep, p + 1, <<>>)
    ELSE SplitFrom(s, sep, p + 1, Append(cur, s[p]))

Split(s, sep) == SplitFrom(s, sep, 1, <<>>)

\* parts.join(sep)
RECURSIVE Join(_, _)
Join(parts, sep) ==
    IF Len(parts) = 0 THEN <<>>
    ELSE IF Len(parts) = 1 THEN parts[1]
    ELSE parts[1] \o sep \o Join(Tail(parts), sep)

\* a % b of JavaScript for b # 0: the sign of the result is that of a
JsMod(a, b) ==
    LET m == IF b < 0 THEN -b ELSE b
    IN  IF a >= 0 THEN a % m ELSE -((-a) % m)

\* Math.floor(a / b) for b # 0
FloorDiv(a, b) == IF b > 0 THEN a \div b ELSE (-a) \div (-b)

(***************************************************************************)
(* EOL                                                                     *)
(***************************************************************************)

\* text.replace(/\r\n/g, "\n")
RECURSIVE ReplaceCRLF(_)
ReplaceCRLF(text) ==
    IF Len(text) = 0 THEN <<>>
    ELSE IF MatchesAt(text, 1, <<"\r", "\n">>)
        THEN <<"\n">> \o ReplaceCRLF(From(text, 3))
    ELSE <<text[1]>> \o ReplaceCRLF(Tail(text))

splitLines(text) == Split(ReplaceCRLF(text), "\n")

\* lf.replace(/\n/g, "\r\n")
RECURSIVE ReplaceLF(_)
ReplaceLF(text) ==
    IF Len(text) = 0 THEN <<>>
    ELSE IF text[1] = "\n" THEN <<"\r", "\n">> \o ReplaceLF(Tail(text))
    ELSE <<text[1]>> \o ReplaceLF(Tail(text))

joinWithEOL(lines, mode) ==
    LET lf == Join(lines, <<"\n">>)
    IN  IF mode = "crlf" THEN ReplaceLF(lf) ELSE lf

(***************************************************************************)
(* Divers                                                                  *)
(***************************************************************************)

\* the loop of visualWidth from position p with the width w so far, tabSize # 0
RECURSIVE visualWidthFrom(_, _, _, _)
visualWidthFrom(s, tabSize, p, w) ==
    IF p > Len(s) THEN w
    ELSE IF s[p] = "\t"
        THEN visualWidthFrom(s, tabSize, p + 1, w + (tabSize - JsMod(w, tabSize)))
    ELSE visualWidthFrom(s, tabSize, p + 1, w + 1)

\* tabSize # 0 (with tabSize = 0 the width of a text with a tab is NaN:
\* see visualWidthIsNaN)
visualWidth(s, tabSize) == visualWidthFrom(s, tabSize, 1, 0)

\* w % 0 is NaN, and NaN stays NaN in every later sum
visualWidthIsNaN(s, tabSize) == tabSize = 0 /\ Includes(s, "\t")

(***************************************************************************)
(* Analyse chaines / commentaires                                          *)
(***************************************************************************)

\* the loop of stripStrings from position p; inStr is "" outside a string
RECURSIVE stripStringsFrom(_, _, _)
stripStringsFrom(s, p, inStr) ==
    IF p > Len(s) THEN <<>>
    ELSE IF inStr # ""
        THEN IF s[p] = "\\" THEN stripStringsFrom(s, p + 2, inStr)
             ELSE IF s[p] = inStr THEN stripStringsFrom(s, p + 1, "")
             ELSE stripStringsFrom(s, p + 1, inStr)
    ELSE IF IsQuote(s[p]) THEN stripStringsFrom(s, p + 1, s[p])
    ELSE <<s[p]>> \o stripStringsFrom(s, p + 1, "")

stripStrings(s) == stripStringsFrom(s, 1, "")

\* line.indexOf(w, p - 1) as a 1-based position, 0 when w is not found
RECURSIVE IndexOf(_, _, _)
IndexOf(s, w, p) ==
    IF p + Len(w) - 1 > Len(s) THEN 0
    ELSE IF MatchesAt(s, p, w) THEN p
    ELSE IndexOf(s, w, p + 1)

\* the loop of splitCodeAndComment from position p
RECURSIVE splitCodeAndCommentFrom(_, _, _)
splitCodeAndCommentFrom(line, p, inStr) ==
    IF p > Len(line) THEN [code |-> line, comment |-> <<>>]
    ELSE IF inStr # ""
        THEN IF line[p] = "\\" THEN splitCodeAndCommentFrom(line, p + 2, inStr)
             ELSE IF line[p] = inStr THEN splitCodeAndCommentFrom(line, p + 1, "")
             ELSE splitCodeAndCommentFrom(line, p + 1, inStr)
    ELSE IF IsQuote(line[p]) THEN splitCodeAndCommentFrom(line, p + 1, line[p])
    ELSE IF MatchesAt(line, p, <<"/", "/">>)
        THEN [code |-> Before(line, p), comment |-> From(line, p)]
    ELSE IF MatchesAt(line, p, <<"/", "*">>) /\ IndexOf(line, <<"*", "/">>, p + 2) # 0
        THEN [code |-> Before(line, p),
              comment |-> SubSeq(line, p, IndexOf(line, <<"*", "/">>, p + 2) + 1)]
    ELSE splitCodeAndCommentFrom(line, p + 1, "")

splitCodeAndComment(line) == splitCodeAndCommentFrom(line, 1, "")

\* the end (exclusive) of the chunk that starts at p: the next quote
RECURSIVE ChunkEnd(_, _)
ChunkEnd(line, p) ==
    IF p <= Len(line) /\ ~IsQuote(line[p]) THEN ChunkEnd(line, p + 1) ELSE p

(***************************************************************************)
(* Espaces: operateurs, virgules, colon (the per-chunk transforms)         *)
(***************************************************************************)

\* the alternatives of the operator expression with the single-character ones
\* first
opsShortestFirst ==
    << <<"+">>, <<"-">>, <<"*">>, <<"/">>, <<"%">>, <<"<">>, <<">">>, <<"=">>,
       <<"&">>, <<"|">>, <<"^">>,
       <<"+", "=">>, <<"-", "=">>, <<"*", "=">>, <<"/", "=">>, <<"%", "=">>,
       <<"<", "<", "=">>, <<">", ">", "=">>, <<"&", "=">>, <<"^", "=">>,
       <<"|", "=">>,
       <<"=", "=", "=">>, <<"!", "=", "=">>, <<"=", "=">>, <<"!", "=">>,
       <<"<", "=">>, <<">", "=">>, <<"&", "&">>, <<"|", "|">>, <<"<", "<">>,
       <<">", ">">> >>

\* the alternatives of the operator expression, in the order of the source
ops ==
    << <<"+", "=">>, <<"-", "=">>, <<"*", "=">>, <<"/", "=">>, <<"%", "=">>,
       <<"<", "<", "=">>, <<">", ">", "=">>, <<"&", "=">>, <<"^", "=">>,
       <<"|", "=">>,
       <<"=", "=", "=">>, <<"!", "=", "=">>, <<"=", "=">>, <<"!", "=">>,
       <<"<", "=">>, <<">", "=">>, <<"&", "&">>, <<"|", "|">>, <<"<", "<">>,
       <<">", ">">>,
       <<"+">>, <<"-">>, <<"*">>, <<"/">>, <<"%">>, <<"<">>, <<">">>, <<"=">>,
       <<"&">>, <<"|">>, <<"^">> >>

\* the first alternative, from k on, that stands at position p (0 if none)
RECURSIVE OpAtFrom(_, _, _)
OpAtFrom(s, p, k) ==
    IF k > Len(ops) THEN 0
    ELSE IF MatchesAt(s, p, ops[k]) THEN k
    ELSE OpAtFrom(s, p, k + 1)

OpAt(s, p) == OpAtFrom(s, p, 1)

\* chunk.replace(rx, " $1 ") with rx = /\s*(op|op|...)\s*/g, from position p:
\* a match starts at p exactly when an operator follows the \s run at p
RECURSIVE ReplaceOps(_, _)
ReplaceOps(s, p) ==
    IF p > Len(s) THEN <<>>
    ELSE LET q == SkipSpace(s, p)
             k == OpAt(s, q)
         IN  IF k # 0
                 THEN <<" ">> \o ops[k] \o <<" ">>
                      \o ReplaceOps(s, SkipSpace(s, q + Len(ops[k])))
                 ELSE <<s[p]>> \o ReplaceOps(s, p + 1)

\* s.replace(/ {2,}/g, " ")
RECURSIVE CollapseSpaces(_)
CollapseSpaces(s) ==
    IF Len(s) = 0 THEN <<>>
    ELSE IF MatchesAt(s, 1, <<" ", " ">>) THEN CollapseSpaces(Tail(s))
    ELSE <<s[1]>> \o CollapseSpaces(Tail(s))

\* the transform of ensureSpacesAroundOpsOutsideStrings
OpsChunk(chunk) == CollapseSpaces(ReplaceOps(chunk, 1))

\* s.replace(/\s*c\s*/g, rep) for a character c that is no \s, from position p
RECURSIVE ReplaceAround(_, _, _, _)
ReplaceAround(s, c, rep, p) ==
    IF p > Len(s) THEN <<>>
    ELSE LET q == SkipSpace(s, p)
         IN  IF q <= Len(s) /\ s[q] = c
                 THEN rep \o ReplaceAround(s, c, rep, SkipSpace(s, q + 1))
                 ELSE <<s[p]>> \o ReplaceAround(s, c, rep, p + 1)

\* the first position >= p of s that holds no space character
RECURSIVE SkipSpaces(_, _)
SkipSpaces(s, p) ==
    IF p <= Len(s) /\ s[p] = " " THEN SkipSpaces(s, p + 1) ELSE p

\* s.replace(/, +([,\]\)}])/g, ",$1"), from position p
RECURSIVE TightenCommas(_, _)
TightenCommas(s, p) ==
    IF p > Len(s) THEN <<>>
    ELSE LET q == SkipSpaces(s, p + 1)
         IN  IF /\ s[p] = ","
                /\ q > p + 1
                /\ q <= Len(s)
                /\ s[q] \in {",", "]", ")", "}"}
                 THEN <<",", s[q]>> \o TightenCommas(s, q + 1)
                 ELSE <<s[p]>> \o TightenCommas(s, p + 1)

\* the transform of ensureSpaceAfterCommasOutsideStrings
CommaChunk(chunk) == TightenCommas(ReplaceAround(chunk, ",", <<",", " ">>, 1), 1)

\* the transform of ensureSpaceAroundColonOutsideStrings
ColonChunk(chunk, mode) ==
    IF mode = "left" THEN ReplaceAround(chunk, ":", <<" ", ":">>, 1)
    ELSE IF mode = "both" THEN ReplaceAround(chunk, ":", <<" ", ":", " ">>, 1)
    ELSE ReplaceAround(chunk, ":", <<":", " ">>, 1)

\* fn(chunk), fn being the callback the three passes hand to
\* rewriteOutsideStrings
ApplyFn(fn, chunk) ==
    IF fn.pass = "ops" THEN OpsChunk(chunk)
    ELSE IF fn.pass = "comma" THEN CommaChunk(chunk)
    ELSE ColonChunk(chunk, fn.mode)

(***************************************************************************)
(* Reecriture securisee                                                    *)
(***************************************************************************)

\* the loop of rewriteOutsideStrings from position p
RECURSIVE rewriteOutsideStringsFrom(_, _, _, _)
rewriteOutsideStringsFrom(line, fn, p, inStr) ==
    IF p > Len(line) THEN <<>>
    ELSE IF inStr # ""
        THEN IF line[p] = "\\"
                 THEN IF p + 1 <= Len(line)
                          THEN <<line[p], line[p + 1]>>
                               \o rewriteOutsideStringsFrom(line, fn, p + 2, inStr)
                          ELSE <<line[p]>>
                               \o rewriteOutsideStringsFrom(line, fn, p + 1, inStr)
             ELSE IF line[p] = inStr
                 THEN <<line[p]>> \o rewriteOutsideStringsFrom(line, fn, p + 1, "")
             ELSE <<line[p]>> \o rewriteOutsideStringsFrom(line, fn, p + 1, inStr)
    ELSE IF IsQuote(line[p])
        THEN <<line[p]>> \o rewriteOutsideStringsFrom(line, fn, p + 1, line[p])
    ELSE LET j == ChunkEnd(line, p)
         IN  ApplyFn(fn, SubSeq(line, p, j - 1))
             \o rewriteOutsideStringsFrom(line, fn, j, "")

rewriteOutsideStrings(line, fn) == rewriteOutsideStringsFrom(line, fn, 1, "")

ensureSpacesAroundOpsOutsideStrings(line) ==
    rewriteOutsideStrings(line, [pass |-> "ops"])

ensureSpaceAfterCommasOutsideStrings(line) ==
    rewriteOutsideStrings(line, [pass |-> "comma"])

ensureSpaceAroundColonOutsideStrings(line, mode) ==
    rewriteOutsideStrings(line, [pass |-> "colon", mode |-> mode])

\* the inner loop of rewriteStrings: the content of the literal that opens
\* before position p, and the position after it
RECURSIVE ScanLiteral(_, _, _, _)
ScanLiteral(line, quote, p, content) ==
    IF p > Len(line) THEN [content |-> content, next |-> p]
    ELSE IF line[p] = "\\" /\ p + 1 <= Len(line)
        THEN ScanLiteral(line, quote, p + 2, content \o <<line[p], line[p + 1]>>)
    ELSE IF line[p] = "\\"
        \* a backslash that ends the line: appended by the escape branch, then
        \* again by the fall-through (it is not the quote)
        THEN ScanLiteral(line, quote, p + 1, content \o <<line[p], line[p]>>)
    ELSE IF line[p] = quote THEN [content |-> content, next |-> p + 1]
    ELSE ScanLiteral(line, quote, p + 1, Append(content, line[p]))

\* the callback of normalizeQuotesInLine (content.replace of the target quote
\* changes nothing: the content holds none)
QuoteFn(target, content, quote) ==
    IF target = "double" /\ quote = "'" /\ ~Includes(content, "\"")
        THEN <<"\"">> \o content \o <<"\"">>
    ELSE IF target = "single" /\ quote = "\"" /\ ~Includes(content, "'")
        THEN <<"'">> \o content \o <<"'">>
    ELSE <<quote>> \o content \o <<quote>>

\* the loop of rewriteStrings from position p, with the callback of
\* normalizeQuotesInLine
RECURSIVE rewriteStringsFrom(_, _, _)
rewriteStringsFrom(line, target, p) ==
    IF p > Len(line) THEN <<>>
    ELSE IF ~IsQuote(line[p])
        THEN <<line[p]>> \o rewriteStringsFrom(line, target, p + 1)
    ELSE LET lit == ScanLiteral(line, line[p], p + 1, <<>>)
         IN  QuoteFn(target, lit.content, line[p])
             \o rewriteStringsFrom(line, target, lit.next)

normalizeQuotesInLine(line, target) == rewriteStringsFrom(line, target, 1)

(***************************************************************************)
(* Style d'accolades et else                                               *)
(***************************************************************************)

\* whether /\)\s*\{\s*$/ matches at position p
BraceTailAt(line, p) ==
    /\ line[p] = ")"
    /\ LET q == SkipSpace(line, p + 1)
       IN  /\ q <= Len(line)
           /\ line[q] = "{"
           /\ SkipSpace(line, q + 1) > Len(line)

\* the position of the leftmost match of /\)\s*\{\s*$/, 0 if none
RECURSIVE BraceTailFrom(_, _)
BraceTailFrom(line, p) ==
    IF p > Len(line) THEN 0
    ELSE IF BraceTailAt(line, p) THEN p
    ELSE BraceTailFrom(line, p + 1)

applyBraceStyle(line, style) ==
    LET p == BraceTailFrom(line, 1)
    IN  IF p = 0 THEN line
        ELSE IF style = "attach" THEN Before(line, p) \o <<")", " ", "{">>
        ELSE Before(line, p) \o <<")", "\n", "{">>

\* whether "else", followed by a word boundary, stands at position p
ElseAt(line, p) ==
    /\ MatchesAt(line, p, <<"e", "l", "s", "e">>)
    /\ (p + 4 > Len(line) \/ ~IsWordChar(line[p + 4]))

\* whether /}\s*else\b/ matches at position p
BraceElseAt(line, p) == line[p] = "}" /\ ElseAt(line, SkipSpace(line, p + 1))

\* line.replace(/}\s*else\b/g, "}\nelse"), from position p
RECURSIVE ReplaceBraceElse(_, _)
ReplaceBraceElse(line, p) ==
    IF p > Len(line) THEN <<>>
    ELSE IF BraceElseAt(line, p)
        THEN <<"}", "\n", "e", "l", "s", "e">>
             \o ReplaceBraceElse(line, SkipSpace(line, p + 1) + 4)
    ELSE <<line[p]>> \o ReplaceBraceElse(line, p + 1)

applyNewlineBeforeElse(line) ==
    IF /\ ~ElseAt(line, SkipSpace(line, 1))
       /\ \E p \in 1..Len(line) : BraceElseAt(line, p)
        THEN ReplaceBraceElse(line, 1)
        ELSE line

(***************************************************************************)
(* Indentation utilitaires                                                 *)
(***************************************************************************)

\* lead.replace(/\t/g, spaces)
RECURSIVE ExpandTabs(_, _)
ExpandTabs(lead, spaces) ==
    IF Len(lead) = 0 THEN <<>>
    ELSE IF lead[1] = "\t" THEN spaces \o ExpandTabs(Tail(lead), spaces)
    ELSE <<lead[1]>> \o ExpandTabs(Tail(lead), spaces)

\* whether normalizeIndent throws the RangeError of String.prototype.repeat:
\* a negative count, or the count Infinity of width / 0 with width > 0
\* (NaN, of 0 / 0 and of a NaN width, counts as 0)
normalizeIndentThrows(line, tabSize, useSpaces) ==
    LET lead == Before(line, SkipBlank(line, 1))
    IN  IF useSpaces THEN tabSize < 0
        ELSE IF tabSize = 0 THEN ~visualWidthIsNaN(lead, tabSize) /\ Len(lead) > 0
        ELSE \/ FloorDiv(visualWidth(lead, tabSize), tabSize) < 0
             \/ JsMod(visualWidth(lead, tabSize), tabSize) < 0

\* where it does not throw
normalizeIndent(line, indentUnit, tabSize, useSpaces) ==
    LET lead == Before(line, SkipBlank(line, 1))
        body == From(line, Len(lead) + 1)
    IN  IF useSpaces THEN ExpandTabs(lead, Repeat(<<" ">>, tabSize)) \o body
        ELSE IF tabSize = 0 THEN body
        ELSE LET width == visualWidth(lead, tabSize)
             IN  Repeat(<<"\t">>, FloorDiv(width, tabSize))
                 \o Repeat(<<" ">>, JsMod(width, tabSize)) \o body

applyIndentHeuristic(line, level, indentUnit) ==
    Repeat(indentUnit, Max(0, level)) \o TrimLeadingBlank(line)

\* the number of characters of s that satisfy the class: (s.match(rx) || []).length
RECURSIVE CountOpen(_)
CountOpen(s) ==
    IF Len(s) = 0 THEN 0
    ELSE (IF IsOpenBracket(s[1]) THEN 1 ELSE 0) + CountOpen(Tail(s))

RECURSIVE CountClose(_)
CountClose(s) ==
    IF Len(s) = 0 THEN 0
    ELSE (IF IsCloseBracket(s[1]) THEN 1 ELSE 0) + CountClose(Tail(s))

netBracketDelta(line) ==
    CountOpen(stripStrings(line)) - CountClose(stripStrings(line))

startsWithClosingBracket(line) ==
    LET s == TrimLeadingBlank(line)
    IN  Len(s) > 0 /\ IsCloseBracket(s[1])

(***************************************************************************)
(* Options etendues                                                        *)
(*                                                                         *)
(* An options value is a record of the fields of ExtraFormattingOptions    *)
(* with the set "present" of the fields it holds (the others are           *)
(* undefined), and "undefined" when the caller hands no options at all.    *)
(***************************************************************************)

OptionNames ==
    {"tabSize", "insertSpaces", "trimTrailingWhitespace", "insertFinalNewline",
     "trimFinalNewlines", "normalizeEOL", "maxConsecutiveBlankLines",
     "ensureSpaceAroundOperators", "spaceAfterComma", "spaceAroundColon",
     "normalizeQuotes", "keepIndentInsideStrings", "alignInlineComments",
     "alignEquals", "braceStyle", "newlineBeforeElse", "wrapCommentsAt"}

\* the default value of the parameter "options" of provideFormattingEdits
DefaultOptions ==
    [undefined |-> FALSE,
     present |-> OptionNames,
     tabSize |-> 2,
     insertSpaces |-> TRUE,
     trimTrailingWhitespace |-> TRUE,
     insertFinalNewline |-> TRUE,
     trimFinalNewlines |-> TRUE,
     normalizeEOL |-> "lf",
     maxConsecutiveBlankLines |-> 2,
     ensureSpaceAroundOperators |-> TRUE,
     spaceAfterComma |-> TRUE,
     spaceAroundColon |-> "right",
     normalizeQuotes |-> "preserve",
     keepIndentInsideStrings |-> TRUE,
     alignInlineComments |-> TRUE,
     alignEquals |-> TRUE,
     braceStyle |-> "attach",
     newlineBeforeElse |-> FALSE,
     wrapCommentsAt |-> 100]

\* no options handed over: the parameter's default value takes their place
Undefined == [DefaultOptions EXCEPT !.undefined = TRUE, !.present = {}]

Has(opt, f) == f \in opt.present

\* if (opt.f) for a boolean field: undefined is falsy
IsOn(opt, f) == Has(opt, f) /\ opt[f]

tabSizeOf(opt) == IF Has(opt, "tabSize") THEN opt.tabSize ELSE 2

insertSpacesOf(opt) == IF Has(opt, "insertSpaces") THEN opt.insertSpaces ELSE TRUE

normalizeEOLOf(opt) == IF Has(opt, "normalizeEOL") THEN opt.normalizeEOL ELSE "lf"

maxConsecutiveBlankLinesOf(opt) ==
    IF Has(opt, "maxConsecutiveBlankLines") THEN opt.maxConsecutiveBlankLines ELSE 2

braceStyleOf(opt) == IF Has(opt, "braceStyle") THEN opt.braceStyle ELSE "attach"

trimTrailingWhitespaceOf(opt) ==
    IF Has(opt, "trimTrailingWhitespace") THEN opt.trimTrailingWhitespace ELSE TRUE

indentUnitOf(opt) ==
    IF insertSpacesOf(opt) THEN Repeat(<<" ">>, tabSizeOf(opt)) ELSE <<"\t">>

(***************************************************************************)
(* Pass 1: indentation, espaces, quotes, comma/colon, style accolades      *)
(***************************************************************************)

\* the line after the quote normalisation step of the loop body
QuotesStep(line, opt) ==
    IF Has(opt, "normalizeQuotes") /\ opt.normalizeQuotes # "preserve"
        THEN normalizeQuotesInLine(line, opt.normalizeQuotes)
        ELSE line

OpsStep(line, opt) ==
    IF IsOn(opt, "ensureSpaceAroundOperators")
        THEN ensureSpacesAroundOpsOutsideStrings(line)
        ELSE line

CommaStep(line, opt) ==
    IF IsOn(opt, "spaceAfterComma")
        THEN ensureSpaceAfterCommasOutsideStrings(line)
        ELSE line

ColonStep(line, opt) ==
    IF Has(opt, "spaceAroundColon") /\ opt.spaceAroundColon # "none"
        THEN ensureSpaceAroundColonOutsideStrings(line, opt.spaceAroundColon)
        ELSE line

ElseStep(line, opt) ==
    IF IsOn(opt, "newlineBeforeElse") THEN applyNewlineBeforeElse(line) ELSE line

TrimStep(line, opt) ==
    IF trimTrailingWhitespaceOf(opt) THEN TrimTrailingBlank(line) ELSE line

\* the steps of the loop body after the indentation has been applied
SpacingSteps(line, opt) ==
    TrimStep(
      ElseStep(
        applyBraceStyle(
          ColonStep(CommaStep(OpsStep(QuotesStep(line, opt), opt), opt), opt),
          braceStyleOf(opt)),
        opt),
      opt)

\* the raw line as normalizeIndent leaves it
RawOf(line, indentUnit, tabSize, opt) ==
    normalizeIndent(line, indentUnit, tabSize, insertSpacesOf(opt))

\* the line one turn of the loop of passIndentAndSpacing pushes, for the source
\* line "line" and the bracket depth "indentLevel" before it
Pass1Line(line, indentLevel, indentUnit, tabSize, opt) ==
    LET raw == RawOf(line, indentUnit, tabSize, opt)
        preDec == IF startsWithClosingBracket(raw) THEN 1 ELSE 0
    IN  SpacingSteps(
          applyIndentHeuristic(raw, Max(0, indentLevel - preDec), indentUnit),
          opt)

\* the bracket depth after that turn, kept at 0 or above
NextIndentLevelClamped(line, indentLevel, indentUnit, tabSize, opt) ==
    Max(0, indentLevel + netBracketDelta(RawOf(line, indentUnit, tabSize, opt)))

\* the bracket depth after that turn
NextIndentLevel(line, indentLevel, indentUnit, tabSize, opt) ==
    indentLevel + netBracketDelta(RawOf(line, indentUnit, tabSize, opt))

\* the loop of passIndentAndSpacing from line k on
RECURSIVE passIndentAndSpacingFrom(_, _, _, _, _, _)
passIndentAndSpacingFrom(src, indentUnit, tabSize, opt, k, indentLevel) ==
    IF k > Len(src) THEN <<>>
    ELSE <<Pass1Line(src[k], indentLevel, indentUnit, tabSize, opt)>>
         \o passIndentAndSpacingFrom(
              src, indentUnit, tabSize, opt, k + 1,
              NextIndentLevel(src[k], indentLevel, indentUnit, tabSize, opt))

passIndentAndSpacing(src, indentUnit, tabSize, opt) ==
    passIndentAndSpacingFrom(src, indentUnit, tabSize, opt, 1, 0)

(***************************************************************************)
(* Pass 2: limitation des suites de lignes vides                           *)
(***************************************************************************)

RECURSIVE limitBlankRunsFrom(_, _, _, _)
limitBlankRunsFrom(lines, maxBlank, k, run) ==
    IF k > Len(lines) THEN <<>>
    ELSE IF IsBlankLine(lines[k])
        THEN (IF run + 1 <= maxBlank THEN << <<>> >> ELSE <<>>)
             \o limitBlankRunsFrom(lines, maxBlank, k + 1, run + 1)
    ELSE <<lines[k]>> \o limitBlankRunsFrom(lines, maxBlank, k + 1, 0)

limitBlankRuns(lines, maxBlank) == limitBlankRunsFrom(lines, maxBlank, 1, 0)

(***************************************************************************)
(* Alignements                                                             *)
(***************************************************************************)

\* the code part of a line, trailing [ \t] removed
CodeTrim(line) == TrimTrailingBlank(splitCodeAndComment(line).code)

HasComment(line) == Len(splitCodeAndComment(line).comment) > 0

\* maxCode after the first loop of alignEndOfLineComments, from line k on
RECURSIVE MaxCodeFrom(_, _)
MaxCodeFrom(lines, k) ==
    IF k > Len(lines) THEN 0
    ELSE IF HasComment(lines[k])
        THEN Max(Len(CodeTrim(lines[k])), MaxCodeFrom(lines, k + 1))
    ELSE MaxCodeFrom(lines, k + 1)

alignEndOfLineComments(lines) ==
    LET maxCode == MaxCodeFrom(lines, 1)
    IN  [k \in 1..Len(lines) |->
            IF HasComment(lines[k])
                THEN CodeTrim(lines[k])
                     \o Repeat(<<" ">>, Max(1, maxCode - Len(CodeTrim(lines[k])) + 1))
                     \o splitCodeAndComment(lines[k]).comment
                ELSE lines[k]]

\* sc.includes("=") && !/^\s*\/\//.test(sc), sc being the line without strings
QualifiesForEquals(l) ==
    LET sc == stripStrings(l)
    IN  /\ Includes(sc, "=")
        /\ ~MatchesAt(sc, SkipSpace(sc, 1), <<"/", "/">>)

\* the inner loop of alignEqualsBlocks from line i with the block so far: the
\* block and the line the loop stops at
RECURSIVE ScanBlock(_, _, _)
ScanBlock(out, i, block) ==
    IF i > Len(out) THEN [block |-> block, i |-> i]
    ELSE IF IsBlankLine(out[i]) THEN [block |-> block, i |-> i]
    ELSE IF QualifiesForEquals(out[i]) THEN ScanBlock(out, i + 1, Append(block, i))
    ELSE IF Len(block) > 0 THEN [block |-> block, i |-> i]
    ELSE ScanBlock(out, i + 1, block)

\* line.split("=")[0]
LeftOfEquals(line) == Split(line, "=")[1]

\* parts.join("=") once the first part is shifted out
RightOfEquals(line) == Join(Tail(Split(line, "=")), <<"=">>)

\* col after the first loop over the block, from its k-th line on
RECURSIVE BlockCol(_, _, _)
BlockCol(out, block, k) ==
    IF k > Len(block) THEN 0
    ELSE Max(visualWidth(LeftOfEquals(out[block[k]]), 2), BlockCol(out, block, k + 1))

\* the line the second loop over the block writes
AlignedLine(line, col) ==
    TrimTrailingBlank(LeftOfEquals(line))
    \o Repeat(<<" ">>, Max(1, col - visualWidth(LeftOfEquals(line), 2)))
    \o <<" ", "=", " ">>
    \o TrimLeadingSpace(RightOfEquals(line))

InBlock(block, i) == \E k \in 1..Len(block) : block[k] = i

AlignBlock(out, block) ==
    LET col == BlockCol(out, block, 1)
    IN  [i \in 1..Len(out) |->
            IF InBlock(block, i) THEN AlignedLine(out[i], col) ELSE out[i]]

\* the outer loop of alignEqualsBlocks from line i on
RECURSIVE alignEqualsBlocksFrom(_, _)
alignEqualsBlocksFrom(out, i) ==
    IF i > Len(out) THEN out
    ELSE LET b == ScanBlock(out, i, <<>>)
         IN  alignEqualsBlocksFrom(
               IF Len(b.block) >= 2 THEN AlignBlock(out, b.block) ELSE out,
               b.i + 1)

alignEqualsBlocks(lines) == alignEqualsBlocksFrom(lines, 1)

(***************************************************************************)
(* Wrap de commentaires                                                    *)
(***************************************************************************)

\* s.split(/\s+/), from position p with the word so far
RECURSIVE SplitWords(_, _, _)
SplitWords(s, p, cur) ==
    IF p > Len(s) THEN <<cur>>
    ELSE IF IsSpace(s[p]) THEN <<cur>> \o SplitWords(s, SkipSpace(s, p), <<>>)
    ELSE SplitWords(s, p + 1, Append(cur, s[p]))

\* the loop of wrapText over the words from the k-th on
RECURSIVE PackWords(_, _, _, _)
PackWords(words, width, k, cur) ==
    IF k > Len(words) THEN (IF Len(cur) > 0 THEN <<cur>> ELSE <<>>)
    ELSE IF Len(cur) = 0 THEN PackWords(words, width, k + 1, words[k])
    ELSE IF Len(cur) + 1 + Len(words[k]) <= width
        THEN PackWords(words, width, k + 1, cur \o <<" ">> \o words[k])
    ELSE <<cur>> \o PackWords(words, width, k + 1, words[k])

wrapText(s, width) ==
    IF Len(s) <= width THEN <<s>>
    ELSE PackWords(SplitWords(s, 1, <<>>), width, 1, <<>>)

\* the length of the prefix /^(\s*\/\/\s?)(.*)$/ captures, 0 when the
\* expression does not match ("." matches no line terminator)
CommentPrefixLen(l) ==
    LET p == SkipSpace(l, 1)
        q == IF p + 2 <= Len(l) /\ IsSpace(l[p + 2]) THEN p + 3 ELSE p + 2
    IN  IF ~MatchesAt(l, p, <<"/", "/">>) THEN 0
        ELSE IF \A r \in q..Len(l) : ~IsLineTerminator(l[r]) THEN q - 1
        ELSE IF \A r \in (p + 2)..Len(l) : ~IsLineTerminator(l[r]) THEN p + 1
        ELSE 0

\* the lines wrapCommentLines pushes for the line l
WrapLine(l, max) ==
    LET n == CommentPrefixLen(l)
        prefix == Before(l, n + 1)
        wrapped == wrapText(Trim(From(l, n + 1)), max - visualWidth(prefix, 2))
    IN  IF n = 0 THEN <<l>>
        ELSE [k \in 1..Len(wrapped) |-> prefix \o wrapped[k]]

RECURSIVE wrapCommentLines(_, _)
wrapCommentLines(lines, max) ==
    IF Len(lines) = 0 THEN <<>>
    ELSE WrapLine(lines[1], max) \o wrapCommentLines(Tail(lines), max)

(***************************************************************************)
(* Formatage par passes                                                    *)
(***************************************************************************)

\* whether formatLines throws: " ".repeat(tabSize) of a negative tabSize, or
\* normalizeIndent on one of the lines
formatLinesThrows(src, opt) ==
    \/ insertSpacesOf(opt) /\ tabSizeOf(opt) < 0
    \/ \E k \in 1..Len(src) :
          normalizeIndentThrows(src[k], tabSizeOf(opt), insertSpacesOf(opt))

AlignCommentsStep(lines, opt) ==
    IF IsOn(opt, "alignInlineComments") THEN alignEndOfLineComments(lines) ELSE lines

AlignEqualsStep(lines, opt) ==
    IF IsOn(opt, "alignEquals") THEN alignEqualsBlocks(lines) ELSE lines

WrapStep(lines, opt) ==
    IF Has(opt, "wrapCommentsAt") /\ opt.wrapCommentsAt # 0 /\ opt.wrapCommentsAt > 10
        THEN wrapCommentLines(lines, opt.wrapCommentsAt)
        ELSE lines

\* passes 2 to 5, applied to the lines pass 1 returns
LaterPasses(lines, opt) ==
    WrapStep(
      AlignEqualsStep(
        AlignCommentsStep(limitBlankRuns(lines, maxConsecutiveBlankLinesOf(opt)), opt),
        opt),
      opt)

\* where it does not throw
formatLines(src, opt) ==
    LaterPasses(passIndentAndSpacing(src, indentUnitOf(opt), tabSizeOf(opt), opt), opt)

(***************************************************************************)
(* The document (TextDocument of vscode-languageserver-textdocument: a     *)
(* line ends at "\r\n", "\n" or "\r"; positions are zero-based)            *)
(***************************************************************************)

\* the lines of the document, terminators removed, from position p on
RECURSIVE DocLinesFrom(_, _, _)
DocLinesFrom(text, p, cur) ==
    IF p > Len(text) THEN <<cur>>
    ELSE IF MatchesAt(text, p, <<"\r", "\n">>)
        THEN <<cur>> \o DocLinesFrom(text, p + 2, <<>>)
    ELSE IF IsLineTerminator(text[p]) THEN <<cur>> \o DocLinesFrom(text, p + 1, <<>>)
    ELSE DocLinesFrom(text, p + 1, Append(cur, text[p]))

\* doc.lineCount
lineCount(text) == Len(DocLinesFrom(text, 1, <<>>))

\* doc.getText(Range.create(Position.create(line, 0), Position.create(line, MAX)))
\* for the last line of the document
LastLineText(text) == DocLinesFrom(text, 1, <<>>)[lineCount(text)]

Position(line, character) == [line |-> line, character |-> character]

\* fullRange with the first line taken for the last
fullRangeOfFirstLine(text) ==
    [start |-> Position(0, 0),
     end |-> Position(0, Len(DocLinesFrom(text, 1, <<>>)[1]))]

fullRange(text) ==
    LET lastLine == Max(0, lineCount(text) - 1)
    IN  [start |-> Position(0, 0),
         end |-> Position(lastLine, Len(LastLineText(text)))]

\* doc.offsetAt(position): the number of characters before the position
RECURSIVE OffsetOfLine(_, _, _)
OffsetOfLine(text, line, p) ==
    IF line = 0 \/ p > Len(text) THEN p - 1
    ELSE IF MatchesAt(text, p, <<"\r", "\n">>) THEN OffsetOfLine(text, line - 1, p + 2)
    ELSE IF IsLineTerminator(text[p]) THEN OffsetOfLine(text, line - 1, p + 1)
    ELSE OffsetOfLine(text, line, p + 1)

offsetAt(text, pos) == Min(Len(text), OffsetOfLine(text, pos.line, 1) + pos.character)

\* the document after the host has applied the edit
ApplyTextEdit(text, edit) ==
    Before(text, offsetAt(text, edit.range.start) + 1)
    \o edit.newText
    \o From(text, offsetAt(text, edit.range.end) + 1)

(***************************************************************************)
(* API principale                                                          *)
(***************************************************************************)

\* the options provideFormattingEdits works with
EffectiveOptions(options) == IF options.undefined THEN DefaultOptions ELSE options

\* text.replace(/\n+$/g, "\n")
RECURSIVE StripTrailingLF(_)
StripTrailingLF(text) ==
    IF Len(text) > 0 /\ text[Len(text)] = "\n"
        THEN StripTrailingLF(SubSeq(text, 1, Len(text) - 1))
        ELSE text

TrimFinalNewlines(text) ==
    IF EndsWith(text, <<"\n">>) THEN StripTrailingLF(text) \o <<"\n">> ELSE text

\* the final-newline policy, applied to the joined text
FinalNewlinePolicy(text, opt) ==
    LET trimmed == IF IsOn(opt, "trimFinalNewlines") THEN TrimFinalNewlines(text)
                   ELSE text
    IN  IF IsOn(opt, "insertFinalNewline") /\ ~EndsWith(trimmed, <<"\n">>)
            THEN trimmed \o <<"\n">>
            ELSE trimmed

\* "text" when the function compares it with normalizedOrig, given the lines
\* formatLines returned
FinalTextOf(outLines, opt) ==
    FinalNewlinePolicy(joinWithEOL(outLines, normalizeEOLOf(opt)), opt)

\* joinWithEOL(splitLines(original), options.normalizeEOL ?? "lf")
NormalizedOrig(original, opt) == joinWithEOL(splitLines(original), normalizeEOLOf(opt))

\* what a call returns: the list of edits, or the exception it throws
Returned(edits) == [kind |-> "edits", edits |-> edits]

Thrown == [kind |-> "throws", edits |-> <<>>]

\* GuardedEdits with the early exit taken on the joined text, before the
\* final-newline policy
GuardedEditsBeforePolicy(original, outLines, opt) ==
    IF NormalizedOrig(original, opt) = joinWithEOL(outLines, normalizeEOLOf(opt)) THEN <<>>
    ELSE << [range |-> fullRange(original), newText |-> FinalTextOf(outLines, opt)] >>

\* the early exit and the return statement, given the lines formatLines returned
GuardedEdits(original, outLines, opt) ==
    IF NormalizedOrig(original, opt) = FinalTextOf(outLines, opt) THEN <<>>
    ELSE << [range |-> fullRange(original), newText |-> FinalTextOf(outLines, opt)] >>

provideFormattingEdits(original, options) ==
    LET opt == EffectiveOptions(options)
    IN  IF formatLinesThrows(splitLines(original), opt) THEN Thrown
        ELSE Returned(GuardedEdits(original, formatLines(splitLines(original), opt), opt))

(***************************************************************************)
(* The state machine: a host holds a document and calls the formatter.     *)
(* A call runs the loop of pass 1 one line per step, then the later passes *)
(* and the guard in one step; the host may apply the edit it got and call  *)
(* again.                                                                  *)
(***************************************************************************)

VARIABLES
    text,         \* doc.getText(): the document the host holds
    options,      \* the options of the calls on this document
    pc,           \* "idle", "pass1" (in the loop of passIndentAndSpacing), "done"
    src,          \* the lines of the running call
    pos,          \* the index (from 1) of the next line of the loop
    out,          \* out of passIndentAndSpacing
    indentLevel,  \* indentLevel of passIndentAndSpacing
    turn,         \* the last turn of the loop: its line at three points
    outLines,     \* what formatLines returned
    result,       \* what the last call returned or threw
    round,        \* how many edits the host has applied to the document
    seen          \* an earlier call the host remembers: input and result

vars ==
    <<text, options, pc, src, pos, out, indentLevel, turn, outLines, result,
      round, seen>>

\* how many times the host applies an edit and calls again
MaxRounds == 2

NoTurn == [indented |-> <<>>, spaced |-> <<>>, line |-> <<>>]

NoResult == [kind |-> "none", edits |-> <<>>]

NothingSeen ==
    [valid |-> FALSE, text |-> <<>>, options |-> Undefined, result |-> NoResult,
     between |-> 0]

\* all texts over the alphabet of at most n characters
Texts(alphabet, n) == UNION {[1..m -> alphabet] : m \in 0..n}

\* the state after the host has opened a document of the set with options of the set
InitWith(texts, optionSet) ==
    /\ text \in texts
    /\ options \in optionSet
    /\ pc = "idle"
    /\ src = <<>>
    /\ pos = 1
    /\ out = <<>>
    /\ indentLevel = 0
    /\ turn = NoTurn
    /\ outLines = <<>>
    /\ result = NoResult
    /\ round = 0
    /\ seen = NothingSeen

Opt == EffectiveOptions(options)

\* indentLevel as a counter of the module, which a call does not reset
InitialIndentLevelKept(previous) == previous

\* let indentLevel = 0 at the head of passIndentAndSpacing; "previous" is the
\* value the last call left
InitialIndentLevel(previous) == 0

\* the entry of provideFormattingEdits down to the head of the loop of pass 1
Call ==
    /\ pc = "idle"
    /\ src' = splitLines(text)
    /\ pos' = 1
    /\ out' = <<>>
    /\ turn' = NoTurn
    /\ outLines' = <<>>
    /\ IF insertSpacesOf(Opt) /\ tabSizeOf(Opt) < 0
           THEN /\ result' = Thrown
                /\ pc' = "done"
                /\ UNCHANGED indentLevel
           ELSE /\ result' = NoResult
                /\ pc' = "pass1"
                /\ indentLevel' = InitialIndentLevel(indentLevel)
    /\ UNCHANGED <<text, options, round, seen>>

\* the three values "line" takes in one turn that the properties look at
TurnOf(line, level, opt) ==
    LET raw == RawOf(line, indentUnitOf(opt), tabSizeOf(opt), opt)
        preDec == IF startsWithClosingBracket(raw) THEN 1 ELSE 0
        indented == applyIndentHeuristic(raw, Max(0, level - preDec), indentUnitOf(opt))
    IN  [indented |-> indented,
         spaced |-> ColonStep(CommaStep(OpsStep(QuotesStep(indented, opt), opt), opt), opt),
         line |-> Pass1Line(line, level, indentUnitOf(opt), tabSizeOf(opt), opt)]

\* one turn of the loop of passIndentAndSpacing
Pass1Turn ==
    /\ pc = "pass1"
    /\ pos <= Len(src)
    /\ IF normalizeIndentThrows(src[pos], tabSizeOf(Opt), insertSpacesOf(Opt))
           THEN /\ result' = Thrown
                /\ pc' = "done"
                /\ UNCHANGED <<pos, out, indentLevel, turn>>
           ELSE /\ turn' = TurnOf(src[pos], indentLevel, Opt)
                /\ out' = Append(out, turn'.line)
                /\ indentLevel' =
                       NextIndentLevel(src[pos], indentLevel, indentUnitOf(Opt),
                                       tabSizeOf(Opt), Opt)
                /\ pos' = pos + 1
                /\ UNCHANGED <<result, pc>>
    /\ UNCHANGED <<text, options, src, outLines, round, seen>>

\* the end of the loop: passes 2 to 5, the join, the final-newline policy, the guard
Finish ==
    /\ pc = "pass1"
    /\ pos > Len(src)
    /\ outLines' = LaterPasses(out, Opt)
    /\ result' = Returned(GuardedEdits(text, outLines', Opt))
    /\ pc' = "done"
    /\ UNCHANGED <<text, options, src, pos, out, indentLevel, turn, round, seen>>

\* the host applies the edit it got; the next call formats the new document
ApplyEdit ==
    /\ pc = "done"
    /\ result.kind = "edits"
    /\ Len(result.edits) > 0
    /\ round < MaxRounds
    /\ text' = ApplyTextEdit(text, result.edits[1])
    /\ round' = round + 1
    /\ pc' = "idle"
    /\ UNCHANGED <<options, src, pos, out, indentLevel, turn, outLines, result, seen>>

Next == Call \/ Pass1Turn \/ Finish \/ ApplyEdit

(***************************************************************************)
(* Documents with assignments and both line terminators, reformatted       *)
(***************************************************************************)

\* the longest document of Init
MaxLen == 5

OperatorsOff == [DefaultOptions EXCEPT !.ensureSpaceAroundOperators = FALSE]

CrLf == [DefaultOptions EXCEPT !.normalizeEOL = "crlf"]

Init ==
    InitWith(Texts({"a", "=", "\n", "\r"}, MaxLen),
             {Undefined, DefaultOptions, OperatorsOff, CrLf})

Spec == Init /\ [][Next]_vars

\* the call has returned (it has not thrown)
HasReturned == pc = "done" /\ result.kind = "edits"

\* "text" of provideFormattingEdits at its end
FinalText == FinalTextOf(outLines, Opt)

\* C1: idempotence of provideFormattingEdits: once the host has applied the
\* replacement a call returned, the next call, on the new text under the same
\* options, returns the empty edit list.
C1_Idempotence == (pc = "done" /\ round >= 1) => result = Returned(<<>>)

\* C4: the idempotence guard: a call that returns, returns the empty list
\* exactly when the final text equals the original split and rejoined under the
\* EOL convention, and otherwise exactly one edit, whose range runs from (0,0)
\* to the end of the last line of the document, whose new text is the final
\* text, and which replaces the whole document.
C4_GuardOneFullEdit ==
    HasReturned =>
        /\ (result.edits = <<>>)
               <=> (FinalText = joinWithEOL(splitLines(text), normalizeEOLOf(Opt)))
        /\ Len(result.edits) <= 1
        /\ \A k \in 1..Len(result.edits) :
              /\ result.edits[k].newText = FinalText
              /\ result.edits[k].range.start = Position(0, 0)
              /\ result.edits[k].range.end
                     = Position(lineCount(text) - 1, Len(LastLineText(text)))
              /\ offsetAt(text, result.edits[k].range.end) = Len(text)
              /\ ApplyTextEdit(text, result.edits[k]) = FinalText

\* a call on a document of several lines has returned one edit
C4_Witness == HasReturned /\ Len(result.edits) = 1 /\ lineCount(text) >= 2

\* C5 as claimed: whenever a call returns the empty edit list, the document
\* itself equals the fully formatted text, line terminators included.
C5_NoEditMeansCanonical == (HasReturned /\ result.edits = <<>>) => text = FinalText

\* whether every line terminator of the text follows the convention: no "\r\n"
\* under lf, no "\n" without a "\r" before it under crlf
FollowsEOL(t, mode) ==
    \A p \in 1..Len(t) :
        t[p] = "\n" => ((p > 1 /\ t[p - 1] = "\r") <=> (mode = "crlf"))

\* C5, amended: whenever a call returns the empty edit list, the document with
\* its line terminators rewritten to the normalizeEOL convention equals the
\* fully formatted text; the document itself equals it when its terminators
\* already follow the convention.
C5_NoEditMeansCanonicalUpToEOL ==
    (HasReturned /\ result.edits = <<>>) =>
        /\ joinWithEOL(splitLines(text), normalizeEOLOf(Opt)) = FinalText
        /\ FollowsEOL(text, normalizeEOLOf(Opt)) => text = FinalText

\* a call has returned no edit for a document whose terminators do not follow
\* the convention
C5_Witness ==
    /\ HasReturned
    /\ result.edits = <<>>
    /\ Len(text) > 0
    /\ ~FollowsEOL(text, normalizeEOLOf(Opt))

(***************************************************************************)
(* Documents with string literals                                          *)
(***************************************************************************)

\* the longest document of InitStrings
MaxLenStrings == 6

InitStrings ==
    InitWith(Texts({"\"", "=", "a", "\n"}, MaxLenStrings), {DefaultOptions, OperatorsOff})

SpecStrings == InitStrings /\ [][Next]_vars

\* the position of the unescaped quote that closes the literal whose content
\* starts at position p, 0 if the line ends first
RECURSIVE ClosingQuote(_, _, _)
ClosingQuote(line, quote, p) ==
    IF p > Len(line) THEN 0
    ELSE IF line[p] = "\\" THEN ClosingQuote(line, quote, p + 2)
    ELSE IF line[p] = quote THEN p
    ELSE ClosingQuote(line, quote, p + 1)

\* the string literals of a line from position p on, in order: the characters
\* between an opening quote and its matching unescaped closing quote
RECURSIVE LiteralsFrom(_, _)
LiteralsFrom(line, p) ==
    IF p > Len(line) THEN <<>>
    ELSE IF ~IsQuote(line[p]) THEN LiteralsFrom(line, p + 1)
    ELSE LET q == ClosingQuote(line, line[p], p + 1)
         IN  IF q = 0 THEN <<>>
             ELSE <<SubSeq(line, p + 1, q - 1)>> \o LiteralsFrom(line, q + 1)

\* the string literals of the lines, in order
RECURSIVE LiteralsOfLines(_)
LiteralsOfLines(lines) ==
    IF Len(lines) = 0 THEN <<>>
    ELSE LiteralsFrom(lines[1], 1) \o LiteralsOfLines(Tail(lines))

\* C2: string-content preservation over the whole pipeline: with normalizeQuotes
\* = preserve, the string literals of the formatted text are the string literals
\* of the input lines, with the same characters between the delimiters, in the
\* same order.
C2_StringContentPreserved ==
    (HasReturned /\ Opt.normalizeQuotes = "preserve") =>
        LiteralsOfLines(splitLines(FinalText)) = LiteralsOfLines(src)

(***************************************************************************)
(* Documents with comments                                                 *)
(***************************************************************************)

\* the longest document of InitComments
MaxLenComments == 5

InitComments ==
    InitWith(Texts({"/", "a", ",", " ", "\n"}, MaxLenComments),
             {DefaultOptions, OperatorsOff})

SpecComments == InitComments /\ [][Next]_vars

\* C3: comment-content preservation in pass 1: for a line with a comment part,
\* the quote normalizer and the operator, comma and colon spacing passes leave
\* the characters of the comment part as they were.
C3_CommentPreservedInPass1 ==
    (pc = "pass1" /\ pos > 1 /\ HasComment(turn.indented)) =>
        splitCodeAndComment(turn.spaced).comment
            = splitCodeAndComment(turn.indented).comment

(***************************************************************************)
(* Options with absent fields                                              *)
(***************************************************************************)

\* the longest document of InitOptions
MaxLenOptions == 3

\* how many fields an options value of InitOptions leaves out at most
MaxAbsent == 2

\* the options values that hold the default of every field they hold
WithAbsent(n) ==
    {[DefaultOptions EXCEPT !.present = OptionNames \ absent] :
        absent \in {a \in SUBSET OptionNames : Cardinality(a) <= n}}

InitOptions == InitWith(Texts({"a", "=", ",", "\n"}, MaxLenOptions), WithAbsent(MaxAbsent))

SpecOptions == InitOptions /\ [][Next]_vars

\* the options value with each absent field set to its documented default
FillDefaults(o) ==
    [f \in DOMAIN o |->
        IF f = "present" THEN OptionNames
        ELSE IF f = "undefined" THEN FALSE
        ELSE IF Has(o, f) THEN o[f]
        ELSE DefaultOptions[f]]

\* C6: option defaults: a call with an options value in which fields are absent
\* returns what the call returns for the options value in which each absent
\* field is set to its documented default.
C6_AbsentMeansDefault ==
    pc = "done" => result = provideFormattingEdits(text, FillDefaults(options))

(***************************************************************************)
(* Options of the declared types outside the usual ranges                  *)
(***************************************************************************)

\* the longest document of InitTotality
MaxLenTotality == 3

OddOptions ==
    {[DefaultOptions EXCEPT !.tabSize = t, !.insertSpaces = i,
                            !.maxConsecutiveBlankLines = m, !.wrapCommentsAt = w] :
        t \in {-1, 0, 2}, i \in BOOLEAN, m \in {-1, 2}, w \in {11, 100}}

InitTotality ==
    InitWith(Texts({" ", "\t", "\\", "\"", "\n"}, MaxLenTotality), OddOptions)

SpecTotality == InitTotality /\ [][Next]_vars

\* C7: totality: every call returns an edit list; none throws.
C7_NeverThrows == pc = "done" => result.kind = "edits"

(***************************************************************************)
(* A host that calls the formatter on one document after another           *)
(***************************************************************************)

\* the longest document of InitCalls
MaxLenCalls == 3

CallTexts == Texts({"{", "\n"}, MaxLenCalls)

CallOptions == {DefaultOptions, OperatorsOff}

InitCalls == InitWith(CallTexts, CallOptions)

\* the host keeps the input and the result of the call that has just ended
Remember ==
    /\ pc = "done"
    /\ ~seen.valid
    /\ seen' = [valid |-> TRUE, text |-> text, options |-> options, result |-> result,
                between |-> 0]
    /\ UNCHANGED <<text, options, pc, src, pos, out, indentLevel, turn, outLines,
                   result, round>>

\* the host turns to another document, or to the same one again, with options of
\* its choice; the next call formats it
Open(t, o) ==
    /\ pc = "done"
    /\ text' = t
    /\ options' = o
    /\ pc' = "idle"
    /\ round' = 0
    /\ seen' = IF seen.valid THEN [seen EXCEPT !.between = Min(2, @ + 1)] ELSE seen
    /\ UNCHANGED <<src, pos, out, indentLevel, turn, outLines, result>>

NextCalls ==
    \/ Call
    \/ Pass1Turn
    \/ Finish
    \/ ApplyEdit
    \/ Remember
    \/ \E t \in CallTexts, o \in CallOptions : Open(t, o)

SpecCalls == InitCalls /\ [][NextCalls]_vars

\* the call that has just ended had the input of the call the host remembers
SameInputAsSeen == pc = "done" /\ seen.valid /\ seen.text = text /\ seen.options = options

\* C8: determinism and independence of invocations: a call returns what an
\* earlier call with the same text and options returned, whatever calls ran
\* between the two.
C8_Deterministic == SameInputAsSeen => result = seen.result

\* a call that returns an edit and ends with a bracket open has been repeated
\* with the same input after at least one other call
C8_Witness ==
    /\ SameInputAsSeen
    /\ seen.between >= 2
    /\ indentLevel > 0
    /\ Len(result.edits) = 1

(***************************************************************************)
(* Documents given line by line                                            *)
(***************************************************************************)

\* the documents of at most n lines, each line one of lineSet
Docs(lineSet, n) ==
    {Join(ls, <<"\n">>) : ls \in UNION {[1..m -> lineSet] : m \in 1..n}}

\* the most lines of a document of InitBlank
MaxLinesBlank == 5

BlankLineSet == {<<>>, <<" ">>, <<"a">>, <<"/", "/">>, <<"{", "{", "{", "{", "{">>}

\* operator spacing and comment alignment off, comments wrapped at 11 columns
NarrowComments(m) ==
    [DefaultOptions EXCEPT !.ensureSpaceAroundOperators = FALSE,
                           !.alignInlineComments = FALSE,
                           !.wrapCommentsAt = 11,
                           !.maxConsecutiveBlankLines = m]

BlankOptions ==
    {[DefaultOptions EXCEPT !.maxConsecutiveBlankLines = m] : m \in 0..2}
        \cup {NarrowComments(m) : m \in 0..2}

InitBlank == InitWith(Docs(BlankLineSet, MaxLinesBlank), BlankOptions)

SpecBlank == InitBlank /\ [][Next]_vars

\* the length of the longest run of blank lines of lines[i..], n of them seen
\* just before i
LongestBlankRunFrom(lines, i, n) ==
    LET RECURSIVE Go(_, _)
        Go(j, k) ==
            IF j > Len(lines) THEN k
            ELSE IF IsBlankLine(lines[j]) THEN Max(k + 1, Go(j + 1, k + 1))
            ELSE Max(k, Go(j + 1, 0))
    IN Go(i, n)

LongestBlankRun(lines) == LongestBlankRunFrom(lines, 1, 0)

\* the lines of a sequence that are not blank, in order
NonBlank(lines) == SelectSeq(lines, LAMBDA l : ~IsBlankLine(l))

\* lines without the blank lines at their end, which the final-newline policy
\* settles
RECURSIVE WithoutTrailingBlankLines(_)
WithoutTrailingBlankLines(lines) ==
    IF Len(lines) > 0 /\ IsBlankLine(lines[Len(lines)])
    THEN WithoutTrailingBlankLines(Before(lines, Len(lines)))
    ELSE lines

\* the lines of the formatted text up to its last line that is not blank
FormattedLines == WithoutTrailingBlankLines(splitLines(FinalText))

\* C9: blank-run cap: the formatted text holds no run of more than
\* maxConsecutiveBlankLines blank lines, and the pass that caps the runs neither
\* adds, drops nor reorders a line that is not blank.
C9_BlankRunCap ==
    HasReturned =>
        /\ LongestBlankRun(FormattedLines) <= maxConsecutiveBlankLinesOf(Opt)
        /\ NonBlank(limitBlankRuns(out, maxConsecutiveBlankLinesOf(Opt))) = NonBlank(out)

(***************************************************************************)
(* Blocks of assignments                                                   *)
(***************************************************************************)

\* the longest document of InitEquals, the example aside
MaxLenEquals == 6

ExampleEquals ==
    <<"x", " ", "=", " ", "1", "\n",
      "l", "o", "n", "g", "n", "a", "m", "e", " ", "=", " ", "2">>

InitEquals ==
    InitWith(Texts({"x", "=", " ", "\n"}, MaxLenEquals) \cup {ExampleEquals},
             {DefaultOptions, OperatorsOff})

SpecEquals == InitEquals /\ [][Next]_vars

\* the lines that reach the alignment of assignments
BeforeEquals == AlignCommentsStep(limitBlankRuns(out, maxConsecutiveBlankLinesOf(Opt)), Opt)

\* the whole document is one block of two lines or more
OneBlock(lines) ==
    /\ Len(lines) >= 2
    /\ \A i \in 1..Len(lines) : QualifiesForEquals(lines[i])

\* the text left of the first "=" of a line, trailing whitespace trimmed
LeftPart(line) == TrimTrailingBlank(Before(line, IndexOf(line, <<"=">>, 1)))

\* the text right of the first "=" of a line, leading whitespace trimmed
RightPart(line) == TrimLeadingSpace(From(line, IndexOf(line, <<"=">>, 1) + 1))

\* the widest left part of the lines
MaxLeftWidth(lines, tabSize) ==
    LET RECURSIVE Go(_)
        Go(i) == IF i > Len(lines) THEN 0
                 ELSE Max(visualWidth(LeftPart(lines[i]), tabSize), Go(i + 1))
    IN Go(1)

\* a line of a block as the alignment is described: the left part padded to
\* the widest left part, " = ", the right part
PaddedLine(line, width, tabSize) ==
    LeftPart(line)
        \o Repeat(<<" ">>, width - visualWidth(LeftPart(line), tabSize))
        \o <<" ", "=", " ">>
        \o RightPart(line)

\* C10: equals alignment: in a block of assignment lines each line becomes its
\* left part, padded on the right to the widest left part of the block, then
\* " = ", then its right part; the first "=" of every line of the block stands
\* in one column and the widest line has one space before it.
C10_EqualsAligned ==
    (HasReturned /\ IsOn(Opt, "alignEquals") /\ OneBlock(BeforeEquals)) =>
        LET width == MaxLeftWidth(BeforeEquals, tabSizeOf(Opt))
        IN /\ Len(outLines) = Len(BeforeEquals)
           /\ \A i \in 1..Len(outLines) :
                outLines[i] = PaddedLine(BeforeEquals[i], width, tabSizeOf(Opt))

(***************************************************************************)
(* Lines with string literals, and the quote normalizer                    *)
(***************************************************************************)

\* the longest document of InitQuotes
MaxLenQuotes == 5

InitQuotes ==
    InitWith(Texts({"'", "\"", "\\", "a"}, MaxLenQuotes),
             {[DefaultOptions EXCEPT !.normalizeQuotes = q] :
                 q \in {"preserve", "double", "single"}})

SpecQuotes == InitQuotes /\ [][Next]_vars

\* a turn of the loop of pass 1 has ended
AfterTurn == pc = "pass1" /\ pos > 1

\* the quote the target names
QuoteOf(target) == IF target = "double" THEN "\"" ELSE "'"

\* a line from position p on with the delimiters of its literals set as the
\* target asks: a literal runs from an opening quote to its matching unescaped
\* closing quote; its delimiters become the target's when they are the other
\* quote and its content holds no quote of the target; all else stays
RECURSIVE RequotedFrom(_, _, _)
RequotedFrom(line, target, p) ==
    IF p > Len(line) THEN <<>>
    ELSE IF ~IsQuote(line[p]) THEN <<line[p]>> \o RequotedFrom(line, target, p + 1)
    ELSE LET q == ClosingQuote(line, line[p], p + 1)
             content == SubSeq(line, p + 1, q - 1)
             delimiter ==
                 IF line[p] # QuoteOf(target) /\ ~Includes(content, QuoteOf(target))
                     THEN QuoteOf(target)
                     ELSE line[p]
         IN  IF q = 0 THEN From(line, p)
             ELSE <<delimiter>> \o content \o <<delimiter>>
                      \o RequotedFrom(line, target, q + 1)

Requoted(line, target) ==
    IF target = "preserve" THEN line ELSE RequotedFrom(line, target, 1)

\* C11: quote normalization safety: the quote step of pass 1 changes the
\* delimiters of a literal to the target's exactly when the content holds no
\* quote of the target, changes nothing with preserve, and in every line, one
\* with an unterminated literal or a trailing backslash included, adds no
\* character and changes none but delimiters.
C11_QuotesOnlyDelimiters ==
    AfterTurn => QuotesStep(turn.indented, Opt) = Requoted(turn.indented, Opt.normalizeQuotes)

(***************************************************************************)
(* Documents for the comment passes: alignment and wrapping               *)
(***************************************************************************)

\* the most words of a comment of InitWrap
MaxWords == 5

WordSet == {<<"a", "a", "a">>, <<"b", "b">>, <<"c">>}

\* the one-line documents "// " followed by 1 to n words with a space between
CommentDocs(wordSet, n) ==
    {<<"/", "/", " ">> \o Join(ws, <<" ">>) :
        ws \in UNION {[1..k -> wordSet] : k \in 1..n}}

\* the longest document of InlineDocs
MaxLenInline == 5

\* the documents with block comments, line comments and code
InlineDocs == Texts({"/", "*", "a", "\n"}, MaxLenInline)

InitWrap ==
    InitWith(CommentDocs(WordSet, MaxWords) \cup InlineDocs,
             {[o EXCEPT !.wrapCommentsAt = w] :
                 o \in {DefaultOptions, OperatorsOff}, w \in {11, 12}})

SpecWrap == InitWrap /\ [][Next]_vars

\* the words of a text: its maximal runs of characters other than the space
WordsOf(s) == SelectSeq(Split(s, " "), LAMBDA w : w # <<>>)

\* the words of the lines in order, the two characters of the prefix left out
RECURSIVE WordsAfterPrefix(_)
WordsAfterPrefix(lines) ==
    IF Len(lines) = 0 THEN <<>>
    ELSE WordsOf(From(lines[1], 3)) \o WordsAfterPrefix(Tail(lines))

\* every option but wrapCommentsAt has its default
DefaultsButWrap == [Opt EXCEPT !.wrapCommentsAt = DefaultOptions.wrapCommentsAt] = DefaultOptions

\* the document is one whole-line comment wider than wrapCommentsAt
WideComment ==
    /\ Len(src) = 1
    /\ MatchesAt(src[1], 1, <<"/", "/", " ">>)
    /\ visualWidth(src[1], 2) > Opt.wrapCommentsAt

\* C12: comment wrapping: a whole-line "// " comment wider than wrapCommentsAt,
\* of words that fit, formatted with the other options at their defaults, comes
\* out as two or more lines, each beginning with "//", each at most
\* wrapCommentsAt wide, whose words in order are the words of the comment.
C12_CommentWrapped ==
    (HasReturned /\ DefaultsButWrap /\ WideComment) =>
        /\ Len(FormattedLines) >= 2
        /\ \A i \in 1..Len(FormattedLines) :
            /\ MatchesAt(FormattedLines[i], 1, <<"/", "/">>)
            /\ visualWidth(FormattedLines[i], 2) <= Opt.wrapCommentsAt
        /\ WordsAfterPrefix(FormattedLines) = WordsOf(From(src[1], 3))

(***************************************************************************)
(* The end of the emitted text                                             *)
(***************************************************************************)

\* the line terminator of a convention
EOLOf(mode) == IF mode = "crlf" THEN <<"\r", "\n">> ELSE <<"\n">>

\* the text ends with one terminator of the convention, and what stands before
\* it does not end with a line terminator
EndsWithOneEOL(t, mode) ==
    /\ EndsWith(t, EOLOf(mode))
    /\ ~EndsWith(Before(t, Len(t) - Len(EOLOf(mode)) + 1), <<"\n">>)

\* C13: final-newline policy: with trimFinalNewlines and insertFinalNewline both
\* on, under lf and under crlf, the emitted text ends with exactly one line
\* terminator of the configured convention.
C13_OneFinalTerminator ==
    (HasReturned /\ IsOn(Opt, "trimFinalNewlines") /\ IsOn(Opt, "insertFinalNewline")) =>
        EndsWithOneEOL(FinalText, normalizeEOLOf(Opt))

(***************************************************************************)
(* Documents with brackets                                                 *)
(***************************************************************************)

\* the most lines of a document of InitBrackets
MaxLinesBrackets == 4

BracketLineSet ==
    {<<"{">>, <<"]">>, <<"(", "(">>, <<" ", "a">>, <<"\"", "{", "\"">>}

\* tabs for indentation, operator spacing off
Tabs == [OperatorsOff EXCEPT !.insertSpaces = FALSE]

InitBrackets ==
    InitWith(Docs(BracketLineSet, MaxLinesBrackets), {DefaultOptions, OperatorsOff, Tabs})

SpecBrackets == InitBrackets /\ [][Next]_vars

\* opening minus closing brackets of a line from position p on, counted outside
\* string literals; quote is the delimiter of the literal p stands in, "" in
\* code; a literal that is not closed runs to the end of the line
RECURSIVE BracketSumFrom(_, _, _)
BracketSumFrom(line, p, quote) ==
    IF p > Len(line) THEN 0
    ELSE IF quote # "" THEN
        IF line[p] = "\\" THEN BracketSumFrom(line, p + 2, quote)
        ELSE IF line[p] = quote THEN BracketSumFrom(line, p + 1, "")
        ELSE BracketSumFrom(line, p + 1, quote)
    ELSE IF IsQuote(line[p]) THEN BracketSumFrom(line, p + 1, line[p])
    ELSE (IF line[p] \in {"{", "[", "("} THEN 1
          ELSE IF line[p] \in {"}", "]", ")"} THEN -1
          ELSE 0) + BracketSumFrom(line, p + 1, "")

\* the sum of the bracket counts of the first k lines
RECURSIVE DepthAfter(_, _)
DepthAfter(lines, k) ==
    IF k <= 0 THEN 0 ELSE DepthAfter(lines, k - 1) + BracketSumFrom(lines[k], 1, "")

\* 1 when the first character of the line that is no space or tab is a closing
\* bracket
PreDec(line) ==
    LET p == SkipBlank(line, 1)
    IN  IF p <= Len(line) /\ line[p] \in {"}", "]", ")"} THEN 1 ELSE 0

\* the line is indentUnit n times, then a character that is no whitespace
IndentedBy(line, indentUnit, n) ==
    LET lead == Repeat(indentUnit, n)
    IN  /\ MatchesAt(line, 1, lead)
        /\ Len(line) > Len(lead)
        /\ ~IsSpace(line[Len(lead) + 1])

\* C14: depth-derived indentation: every line that is not blank leaves pass 1
\* beginning with indentUnit repeated max(0, L - preDec) times and then a
\* character that is no whitespace, L the bracket depth before the line, preDec
\* 1 when the line begins with a closing bracket.
C14_DepthDerivedIndent ==
    (AfterTurn /\ ~IsBlankLine(src[pos - 1])) =>
        IndentedBy(turn.line, indentUnitOf(Opt),
                   Max(0, DepthAfter(src, pos - 2) - PreDec(src[pos - 1])))

\* the bracket depth is 0 before the first line and after line k the sum of
\* the bracket counts of lines 1..k, negative sums included
CounterIsSum ==
    /\ (pc = "pass1" /\ pos = 1) => indentLevel = 0
    /\ AfterTurn => indentLevel = DepthAfter(src, pos - 1)

\* C15: bracket-depth counter: the counter is 0 before the first line and after
\* line k the sum over lines 1..k of opening minus closing brackets outside
\* string literals, never clamped; the indentation computed from it is the
\* depth before the line clamped to 0, and a line's own brackets change the
\* indentation of later lines only.
C15_OwnBracketsLaterOnly ==
    /\ CounterIsSum
    /\ (AfterTurn /\ ~IsBlankLine(src[pos - 1])) =>
           IndentedBy(turn.indented, indentUnitOf(Opt), Max(0, DepthAfter(src, pos - 2)))

\* C15, amended: the counter is 0 before the first line and after line k the
\* sum over lines 1..k of opening minus closing brackets outside string
\* literals, never clamped; the indentation computed for a line is the depth
\* before the line, less 1 when the line itself begins with a closing bracket,
\* clamped to 0; the other brackets of the line change the indentation of later
\* lines only.
C15_BracketDepthCounter ==
    /\ CounterIsSum
    /\ (AfterTurn /\ ~IsBlankLine(src[pos - 1])) =>
           IndentedBy(turn.indented, indentUnitOf(Opt),
                      Max(0, DepthAfter(src, pos - 2) - PreDec(src[pos - 1])))

\* the counter was below 0 before the line that has just been processed and is
\* above 0 after it
C15_Witness == AfterTurn /\ DepthAfter(src, pos - 2) < 0 /\ indentLevel > 0

(***************************************************************************)
(* Lines for the spacing passes: operators and colons                      *)
(***************************************************************************)

\* the most spaces on a side of the operator in a document of InitOperators
MaxSpaces == 2

\* the whitespace on a side of the operator
Gaps == {Repeat(<<" ">>, n) : n \in 0..MaxSpaces} \cup {<<"\t">>}

\* the one-line documents: a, whitespace, an operator of the set, whitespace, an
\* operand
OperatorDocs ==
    {<<"a">> \o before \o ops[k] \o after \o right :
        k \in 1..Len(ops), before \in Gaps, after \in Gaps,
        right \in {<<"b">>, <<"\"", "b", "\"">>}}

\* the longest document of ColonDocs
MaxLenColons == 5

\* the one-line documents with colons, operands, spaces and string literals
ColonDocs == {t \in Texts({":", " ", "a", "\""}, MaxLenColons) : Includes(t, ":")}

ColonModes ==
    {[DefaultOptions EXCEPT !.spaceAroundColon = mode] :
        mode \in {"right", "left", "both", "none"}}

InitSpacing == InitWith(OperatorDocs \cup ColonDocs, ColonModes)

SpecSpacing == InitSpacing /\ [][Next]_vars

OperatorChars == {"+", "-", "*", "/", "%", "<", ">", "=", "&", "|", "^", "!"}

\* the operator of a line of OperatorDocs
OperatorOf(line) == SelectSeq(line, LAMBDA c : c \in OperatorChars)

\* the operands of a line of OperatorDocs
LeftOperand(line) == <<line[1]>>

RightOperand(line) ==
    SelectSeq(Tail(line), LAMBDA c : c \notin OperatorChars /\ ~IsSpace(c))

\* the line with its operator whole and one space on each side of it
SpacedOnce(line) ==
    LeftOperand(line) \o <<" ">> \o OperatorOf(line) \o <<" ">> \o RightOperand(line)

\* C16: operator spacing: an operator of the fixed set that stands between two
\* operands, with any whitespace around it, leaves the operator pass whole, with
\* exactly one space on each side, and so does it stand in the formatted text
\* of a one-statement document; an operator of several characters is never
\* split.
C16_OperatorSpacedOnce ==
    /\ (AfterTurn /\ pos = 2 /\ ~Includes(src[1], ":")) =>
           /\ OpsStep(turn.indented, Opt) = SpacedOnce(src[1])
           /\ turn.line = SpacedOnce(src[1])
    /\ (HasReturned /\ ~Includes(src[1], ":")) =>
           splitLines(FinalText)[1] = SpacedOnce(src[1])

\* a === b written without spaces has gone through pass 1
C16_Witness ==
    /\ AfterTurn
    /\ src = << <<"a", "=", "=", "=", "b">> >>
    /\ turn.line = <<"a", " ", "=", "=", "=", " ", "b">>

\* the positions of a line from p on that stand in code: outside the string
\* literals, delimiters included; quote is the delimiter of the literal p stands
\* in, "" in code
RECURSIVE CodePositionsFrom(_, _, _)
CodePositionsFrom(line, p, quote) ==
    IF p > Len(line) THEN {}
    ELSE IF quote # "" THEN
        IF line[p] = "\\" THEN CodePositionsFrom(line, p + 2, quote)
        ELSE IF line[p] = quote THEN CodePositionsFrom(line, p + 1, "")
        ELSE CodePositionsFrom(line, p + 1, quote)
    ELSE IF IsQuote(line[p]) THEN CodePositionsFrom(line, p + 1, line[p])
    ELSE {p} \cup CodePositionsFrom(line, p + 1, "")

\* no whitespace at position p of the line, or no such position
NoSpaceAt(line, p) == p < 1 \/ p > Len(line) \/ ~IsSpace(line[p])

\* one space at position p of the line
SpaceAt(line, p) == p >= 1 /\ p <= Len(line) /\ line[p] = " "

\* the colon at position p of the line is spaced as the mode asks
ColonAsMode(line, p, mode) ==
    CASE mode = "right" ->
            NoSpaceAt(line, p - 1) /\ SpaceAt(line, p + 1) /\ NoSpaceAt(line, p + 2)
      [] mode = "left" ->
            SpaceAt(line, p - 1) /\ NoSpaceAt(line, p - 2) /\ NoSpaceAt(line, p + 1)
      [] mode = "both" ->
            /\ SpaceAt(line, p - 1) /\ NoSpaceAt(line, p - 2)
            /\ SpaceAt(line, p + 1) /\ NoSpaceAt(line, p + 2)
      [] OTHER -> TRUE

\* the line as it enters the colon step of pass 1
BeforeColonStep == CommaStep(OpsStep(QuotesStep(turn.indented, Opt), Opt), Opt)

\* C17: colon spacing modes: after the colon step every ":" of a code segment
\* that is not the last character of its line is spaced as the mode asks: right,
\* no whitespace before and one space after; left, one space before and no
\* whitespace after; both, one space on each side; with none the line is
\* unchanged.
C17_ColonsAsMode ==
    AfterTurn =>
        /\ Opt.spaceAroundColon = "none" => turn.spaced = BeforeColonStep
        /\ \A p \in CodePositionsFrom(turn.spaced, 1, "") :
               (turn.spaced[p] = ":" /\ p < Len(turn.spaced)) =>
                   ColonAsMode(turn.spaced, p, Opt.spaceAroundColon)

(***************************************************************************)
(* The alignment of comments                                               *)
(***************************************************************************)

\* the characters of a line that are no whitespace, in order
NonWhitespace(line) == SelectSeq(line, LAMBDA c : ~IsSpace(c))

\* the lines that reach the alignment of comments
BeforeAlignComments == limitBlankRuns(out, maxConsecutiveBlankLinesOf(Opt))

\* C18: comment alignment changes whitespace only: alignEndOfLineComments
\* returns as many lines as it got, a line without a comment as it was, and a
\* line with a comment, "//" or "/* */", with or without text after it, with the
\* same characters that are no whitespace, in the same order.
C18_AlignKeepsText ==
    HasReturned =>
        LET lines == BeforeAlignComments
            aligned == alignEndOfLineComments(lines)
        IN  /\ Len(aligned) = Len(lines)
            /\ \A k \in 1..Len(lines) :
                   /\ ~HasComment(lines[k]) => aligned[k] = lines[k]
                   /\ NonWhitespace(aligned[k]) = NonWhitespace(lines[k])

====
